---- MODULE Spec2Model ----
(***************************************************************************)
(* A model of origin's hashing.hpp (Hinnant-style hash_append) and of the  *)
(* debug test hashing.test/debug.cpp.                                      *)
(*                                                                         *)
(* The program is single threaded.  Its state is the call stack of the     *)
(* hash_append overloads in progress and the byte buffers of the two       *)
(* debug_hasher objects that exist: `h`, declared as in debug.cpp's main,  *)
(* and the local `hasher` of hash<H>::operator().  Every hash_append       *)
(* overload is one                                                         *)
(* action acting on the top frame of the stack; an overload that calls     *)
(* another hash_append pushes the callee's frame and resumes after it.     *)
(***************************************************************************)
EXTENDS Integers, Sequences, FiniteSets, TLC

\* Longest array, vector or pointer range that is hashed.
MaxLen == 2

\* Number of hash_append calls main makes on its one debug_hasher.
MaxAppends == 3

\* Frames the call stack holds before the process runs out of stack.
MaxStack == 4

VARIABLES
  pc,        \* where the top-level program is
  stack,     \* call stack of hash_append frames, innermost last
  buf_,      \* debug_hasher::buf_ of each accumulator object
  spans,     \* history: the spans each accumulator was called with
  cur,       \* the value of the top-level call in progress or last made
  prev,      \* history: value and result of the computation before it
  ret,       \* the result of the last computation on a fresh accumulator
  trace,     \* history: what the functor did with its accumulator
  out,       \* what main got from h.value()
  nappends   \* hash_append calls main has made

vars == <<pc, stack, buf_, spans, cur, prev, ret, trace, out, nappends>>

-----------------------------------------------------------------------------
(* Types and object representations *)

\* trivially_comparable<T>: true for integral types, false otherwise
\* (floating point has two representations of zero).
TriviallyComparable(ty) == ty \in {"char", "int"}

Floating_point_type(ty) == ty = "float"

\* sizeof(T) on the usual ABI.
SizeOf(ty) == CASE ty = "char" -> 1 [] ty = "int" -> 4 [] ty = "float" -> 4

\* An object of a scalar type: `bits` are all bits but the top one, `neg`
\* is the top bit (the sign bit of a float or of a two's complement int).
Elem(ty, neg, bits) == [ty |-> ty, neg |-> neg, bits |-> bits]

PosZero == Elem("float", 0, 0)
NegZero == Elem("float", 1, 0)
FloatOne == Elem("float", 0, 1065353216)

\* The bytes at std::addressof(t): little endian, sizeof(t) of them.
storage(t) ==
  [k \in 1..SizeOf(t.ty) |->
     ((t.bits \div (256 ^ (k - 1))) % 256)
       + (IF k = SizeOf(t.ty) /\ t.neg = 1 THEN 128 ELSE 0)]

RECURSIVE Flatten(_)
Flatten(ss) == IF Len(ss) = 0 THEN <<>> ELSE Head(ss) \o Flatten(Tail(ss))

\* The bytes of contiguous storage holding the objects es one after another.
ArrayStorage(es) == Flatten([k \in 1..Len(es) |-> storage(es[k])])

-----------------------------------------------------------------------------
(* Values handed to hash_append *)

Value(kind, ty, es) == [kind |-> kind, ty |-> ty, elems |-> es]

Scalar(t) == Value("scalar", t.ty, <<t>>)

NoValue == Value("none", "none", <<>>)

CharVals == {Elem("char", 0, 0), Elem("char", 0, 97)}
IntVals == {Elem("int", 0, 0), Elem("int", 0, 5)}
FloatVals == {PosZero, NegZero, FloatOne}

ElemsOf(ty) ==
  CASE ty = "char" -> CharVals
    [] ty = "int" -> IntVals
    [] ty = "float" -> FloatVals

SeqsOf(S, lo, hi) == UNION {[1..n -> S] : n \in lo..hi}

Scalars == {Scalar(t) : t \in CharVals \cup IntVals \cup FloatVals}

\* T a[N], N >= 1
Arrays ==
  UNION {{Value("array", ty, es) : es \in SeqsOf(ElemsOf(ty), 1, MaxLen)}
           : ty \in {"int", "float"}}

\* std::vector<T> and std::basic_string<C>
Vectors ==
  UNION {{Value("vector", ty, es) : es \in SeqsOf(ElemsOf(ty), 0, MaxLen)}
           : ty \in {"char", "int", "float"}}

\* (T const* first, T const* last) into contiguous storage
PtrRanges ==
  UNION {{Value("ptrs", ty, es) : es \in SeqsOf(ElemsOf(ty), 0, MaxLen)}
           : ty \in {"char", "int"}}

\* Argument lists of the variadic overload, of two and of three scalars.
PackElems == {Elem("char", 0, 1), Elem("char", 0, 97), Elem("int", 0, 16843009)}
Packs == {Value("pack", "pack", es) : es \in SeqsOf(PackElems, 2, 3)}

\* What one call hash_append(h, ...) can be given.
Values == Scalars \cup Arrays \cup Vectors \cup PtrRanges \cup Packs

\* What hash<H>::operator()(T const& t) can be given: one object.
FunctorValues == Scalars \cup Arrays \cup Vectors

\* What main appends: the data of debug.cpp (5, a character, a floating
\* point number, v = {1, 2, 3}, s = "abc...") cut to MaxLen, and one value
\* for each of the overloads main does not use.
IntRun(n) == [k \in 1..n |-> Elem("int", 0, k)]
CharRun(n) == [k \in 1..n |-> Elem("char", 0, 96 + k)]
FloatRun(n) == [k \in 1..n |-> IF k % 2 = 1 THEN NegZero ELSE FloatOne]

MainValues ==
  {Scalar(Elem("int", 0, 5)), Scalar(Elem("char", 0, 1)),
   Scalar(NegZero), Scalar(FloatOne)}
  \cup {Value("vector", "int", IntRun(n)) : n \in 0..MaxLen}
  \cup {Value("vector", "char", CharRun(n)) : n \in 0..MaxLen}
  \cup {Value("vector", "float", FloatRun(n)) : n \in 1..MaxLen}
  \cup {Value("array", "int", IntRun(MaxLen)),
        Value("array", "float", FloatRun(1)),
        Value("ptrs", "int", IntRun(MaxLen)),
        Value("pack", "pack", <<Elem("int", 0, 5), Elem("char", 0, 97)>>),
        Value("pack", "pack", <<Elem("char", 0, 97), NegZero, Elem("int", 0, 5)>>)}

-----------------------------------------------------------------------------
(* Overload resolution *)

\* The hash_append overload a call hash_append(h, v) resolves to.
Dispatch(v) ==
  CASE v.kind = "scalar" ->
         IF TriviallyComparable(v.ty) THEN "scalar" ELSE "float"
    [] v.kind = "array" ->
         IF TriviallyComparable(v.ty) THEN "array_tc" ELSE "array_gen"
    [] v.kind = "vector" -> "vector"
    [] v.kind = "iter" -> "iter_range"
    [] v.kind = "ptrs" ->
         IF TriviallyComparable(v.ty) THEN "ptr_range" ELSE "iter_range"
    [] v.kind = "pack" -> "variadic"

\* The frame of a call hash_append(h, v): h names the accumulator passed by
\* reference, i is the position in the overload's body.
Frame(h, v) == [rule |-> Dispatch(v), h |-> h, val |-> v, i |-> 0]

top == stack[Len(stack)]

Running == pc \in {"main", "hash", "direct"} /\ Len(stack) > 0

-----------------------------------------------------------------------------
(* debug_hasher *)

PrependBytes(b, key, len) == SubSeq(key, 1, len) \o b

\* debug_hasher::operator()(key, len): buf_.insert(buf_.end(), buf, buf + len)
debug_hasher_call(b, key, len) == b \o SubSeq(key, 1, len)

\* debug_hasher::value()
value(b) == b

StaticHasher(b) == b

\* `H hasher;` a default constructed debug_hasher has an empty buf_.
NewHasher(b) == <<>>

\* h(key, len) on accumulator a
Absorb(a, key, len) ==
  /\ buf_' = [buf_ EXCEPT ![a] = debug_hasher_call(@, key, len)]
  /\ spans' = [spans EXCEPT ![a] = Append(@, SubSeq(key, 1, len))]

\* return from the overload on top of the stack
Return == stack' = SubSeq(stack, 1, Len(stack) - 1)

\* the overload on top of the stack calls hash_append(h, v) and moves on
Call(v) ==
  /\ Len(stack) < MaxStack
  /\ stack' = Append([stack EXCEPT ![Len(stack)].i = @ + 1], Frame(top.h, v))

-----------------------------------------------------------------------------
(* The hash_append overloads *)

ScalarLenOne(t) == 1

\* sizeof(t) in the trivially comparable overload
ScalarLen(t) == SizeOf(t.ty)

\* hash_append(H& h, T const& t), T trivially comparable
ScalarRule ==
  /\ Running /\ top.rule = "scalar"
  /\ LET t == top.val.elems[1]
     IN Absorb(top.h, storage(t), ScalarLen(t))
  /\ Return
  /\ UNCHANGED <<pc, cur, prev, ret, trace, out, nappends>>

FloatRaw(t) == t

\* if (t == 0) t = 0;   on the overload's own copy of the argument
FloatCanon(t) == IF t.bits = 0 THEN PosZero ELSE t

\* hash_append(H& h, T t), T floating point
FloatRule ==
  /\ Running /\ top.rule = "float"
  /\ LET t == FloatCanon(top.val.elems[1])
     IN Absorb(top.h, storage(t), SizeOf(t.ty))
  /\ Return
  /\ UNCHANGED <<pc, cur, prev, ret, trace, out, nappends>>

\* hash_append(H& h, T const (&a)[N]), T trivially comparable: h(a, sizeof(a))
ArrayTCRule ==
  /\ Running /\ top.rule = "array_tc"
  /\ LET a == top.val.elems
     IN Absorb(top.h, ArrayStorage(a), Len(a) * SizeOf(top.val.ty))
  /\ Return
  /\ UNCHANGED <<pc, cur, prev, ret, trace, out, nappends>>

\* The argument of the call in the body of the general array overload:
\* hash_append(h, a), the array, not its element x.
ArrayGenCallee(a, i) == a

\* hash_append(H& h, T const (&a)[N]), T hashable:
\* for (T const& x : a) hash_append(h, a);
ArrayGenRule ==
  /\ Running /\ top.rule = "array_gen"
  /\ IF top.i < Len(top.val.elems)
       THEN Call(ArrayGenCallee(top.val, top.i + 1))
       ELSE Return
  /\ UNCHANGED <<pc, buf_, spans, cur, prev, ret, trace, out, nappends>>

VariadicCalleeReversed(v, i) ==
  IF i = 1 THEN Scalar(v.elems[1])
  ELSE IF Len(v.elems) = 2 THEN Scalar(v.elems[2])
  ELSE [v EXCEPT !.elems = Tail(@)]

\* The arguments of the two calls in the variadic overload:
\* hash_append(h, t0); hash_append(h, t1, ts...);
VariadicCallee(v, i) ==
  IF i = 0 THEN Scalar(v.elems[1])
  ELSE IF Len(v.elems) = 2 THEN Scalar(v.elems[2])
  ELSE [v EXCEPT !.elems = Tail(@)]

\* hash_append(H& h, T0 const& t0, T1 const& t1, Ts const&... ts)
VariadicRule ==
  /\ Running /\ top.rule = "variadic"
  /\ IF top.i < 2
       THEN Call(VariadicCallee(top.val, top.i))
       ELSE Return
  /\ UNCHANGED <<pc, buf_, spans, cur, prev, ret, trace, out, nappends>>

IterAtEndEarly(v, i) == i >= Len(v.elems) - 1

\* first == last, after i increments of first
IterAtEnd(v, i) == i = Len(v.elems)

\* hash_append(H& h, I first, I last):
\* while (first != last) { hash_append(h, *first); ++first; }
IterRangeRule ==
  /\ Running /\ top.rule = "iter_range"
  /\ IF ~IterAtEnd(top.val, top.i)
       THEN Call(Scalar(top.val.elems[top.i + 1]))
       ELSE Return
  /\ UNCHANGED <<pc, buf_, spans, cur, prev, ret, trace, out, nappends>>

\* hash_append(H& h, T const* first, T const* last), T trivially comparable:
\* h(first, last - first), a length counted in elements.
PtrRangeRule ==
  /\ Running /\ top.rule = "ptr_range"
  /\ LET a == top.val.elems
     IN Absorb(top.h, ArrayStorage(a), Len(a))
  /\ Return
  /\ UNCHANGED <<pc, cur, prev, ret, trace, out, nappends>>

\* debug.cpp: hash_append(H& h, std::vector<T, A> const& v) and the
\* basic_string overload: hash_append(h, v.begin(), v.end());
VectorRule ==
  /\ Running /\ top.rule = "vector"
  /\ IF top.i = 0
       THEN Call([top.val EXCEPT !.kind = "iter"])
       ELSE Return
  /\ UNCHANGED <<pc, buf_, spans, cur, prev, ret, trace, out, nappends>>

\* Whether the next thing frame f does is to call another hash_append.
WantsCall(f) ==
  CASE f.rule = "array_gen" -> f.i < Len(f.val.elems)
    [] f.rule = "variadic" -> f.i < 2
    [] f.rule = "iter_range" -> ~IterAtEnd(f.val, f.i)
    [] f.rule = "vector" -> f.i = 0
    [] OTHER -> FALSE

\* A call with the stack exhausted ends the process.
StackOverflow ==
  /\ Running /\ Len(stack) = MaxStack /\ WantsCall(top)
  /\ pc' = "crashed"
  /\ UNCHANGED <<stack, buf_, spans, cur, prev, ret, trace, out, nappends>>

Rules ==
  \/ ScalarRule
  \/ FloatRule
  \/ ArrayTCRule
  \/ ArrayGenRule
  \/ VariadicRule
  \/ IterRangeRule
  \/ PtrRangeRule
  \/ VectorRule
  \/ StackOverflow

-----------------------------------------------------------------------------
(* hash<H>::operator() *)

\* The computation that has ended, remembered when the next one starts.
Last ==
  CASE pc = "returned" -> [val |-> cur, ret |-> ret, absorbed |-> buf_["hasher"]]
    [] pc = "valued" -> [val |-> cur, ret |-> ret, absorbed |-> buf_["h"]]
    [] OTHER -> prev

\* H hasher; hash_append(hasher, t);
\* (the debug_hasher of an earlier computation is out of scope by now)
HashCall(v) ==
  /\ pc \in {"idle", "returned", "valued"}
  /\ prev' = Last
  /\ cur' = v
  /\ buf_' = [buf_ EXCEPT !["hasher"] = NewHasher(@), !["h"] = <<>>]
  /\ spans' = [a \in {"h", "hasher"} |-> <<>>]
  /\ stack' = <<Frame("hasher", v)>>
  /\ trace' = <<"construct", "hash_append">>
  /\ pc' = "hash"
  /\ UNCHANGED <<ret, out, nappends>>

\* return hasher;   the accumulator is converted to result_type, value() is
\* not called.  The result of the conversion is taken to be the bytes the
\* accumulator holds.
HashReturn ==
  /\ pc = "hash" /\ Len(stack) = 0
  /\ ret' = buf_["hasher"]
  /\ trace' = trace \o <<"convert", "return">>
  /\ pc' = "returned"
  /\ UNCHANGED <<stack, buf_, spans, cur, prev, out, nappends>>

-----------------------------------------------------------------------------
(* debug.cpp main *)

\* debug_hasher h; hash_append(h, ...);   one computation on a fresh
\* debug_hasher, with any of the argument lists hash_append takes
\* (the functor's local accumulator of an earlier computation is gone)
DirectCall(v) ==
  /\ pc \in {"idle", "returned", "valued"}
  /\ prev' = Last
  /\ cur' = v
  /\ buf_' = [buf_ EXCEPT !["h"] = NewHasher(@), !["hasher"] = <<>>]
  /\ spans' = [a \in {"h", "hasher"} |-> <<>>]
  /\ stack' = <<Frame("h", v)>>
  /\ trace' = <<>>
  /\ pc' = "direct"
  /\ UNCHANGED <<ret, out, nappends>>

\* h.value() at the end of that computation
DirectValue ==
  /\ pc = "direct" /\ Len(stack) = 0
  /\ ret' = value(buf_["h"])
  /\ pc' = "valued"
  /\ UNCHANGED <<stack, buf_, spans, cur, prev, trace, out, nappends>>

\* hash_append(h, v) on main's debug_hasher h
MainAppend(v) ==
  /\ pc \in {"idle", "main", "value"} /\ Len(stack) = 0
  /\ nappends < MaxAppends
  /\ nappends' = nappends + 1
  /\ cur' = v
  /\ stack' = <<Frame("h", v)>>
  /\ pc' = "main"
  /\ UNCHANGED <<buf_, spans, prev, ret, trace, out>>

\* h.value()
MainValue ==
  /\ pc \in {"idle", "main"} /\ Len(stack) = 0
  /\ out' = value(buf_["h"])
  /\ pc' = "value"
  /\ UNCHANGED <<stack, buf_, spans, cur, prev, ret, trace, nappends>>

-----------------------------------------------------------------------------

Init ==
  /\ pc = "idle"
  /\ stack = <<>>
  /\ buf_ = [a \in {"h", "hasher"} |-> <<>>]
  /\ spans = [a \in {"h", "hasher"} |-> <<>>]
  /\ cur = NoValue
  /\ prev = [val |-> NoValue, ret |-> <<>>, absorbed |-> <<>>]
  /\ ret = <<>>
  /\ trace = <<>>
  /\ out = <<>>
  /\ nappends = 0

\* Computations, each on a fresh accumulator: through the hash functor, or
\* with a debug_hasher of its own.
Next ==
  \/ \E v \in FunctorValues : HashCall(v)
  \/ HashReturn
  \/ \E v \in Values : DirectCall(v)
  \/ DirectValue
  \/ Rules

Spec == Init /\ [][Next]_vars

\* The debug test: appends to one debug_hasher, then value().
NextMain ==
  \/ \E v \in MainValues : MainAppend(v)
  \/ MainValue
  \/ Rules

SpecMain == Init /\ [][NextMain]_vars

-----------------------------------------------------------------------------
(* Properties *)

\* The functor has returned from hashing cur.
Returned == pc = "returned"

\* A computation on a fresh accumulator has ended: the functor has returned,
\* or value() was taken from the debug_hasher.
Done == pc \in {"returned", "valued"}

\* The accumulator of the computation in progress or just ended, and what
\* it has absorbed.
Acc == IF pc \in {"hash", "returned"} THEN "hasher" ELSE "h"
Absorbed == spans[Acc]

\* The bytes one scalar contributes: its storage, a floating point zero as +0.
ElementBytes(t) ==
  storage(IF Floating_point_type(t.ty) /\ t.bits = 0 THEN PosZero ELSE t)

\* The bytes of the elements es, each encoded on its own, in order.
ConcatElements(es) == Flatten([k \in 1..Len(es) |-> ElementBytes(es[k])])

\* u is w repeated a whole number of times.
IsPowerOf(u, w) ==
  /\ Len(w) > 0
  /\ Len(u) % Len(w) = 0
  /\ \A k \in 1..Len(u) : u[k] = w[((k - 1) % Len(w)) + 1]

\* u and v are both repetitions of one block of bytes.
CommonBlock(u, v) ==
  \E n \in 1..Len(u) : IsPowerOf(u, SubSeq(u, 1, n)) /\ IsPowerOf(v, SubSeq(u, 1, n))

\* The number an integral object holds.
IntValue(t) == IF t.neg = 1 THEN (t.bits - 2147483647) - 1 ELSE t.bits

\* a != b as the language compares two scalars.
NotEqual(a, b) ==
  IF TriviallyComparable(a.ty) /\ TriviallyComparable(b.ty)
    THEN IntValue(a) # IntValue(b)
    ELSE a # b /\ ~(a.bits = 0 /\ b.bits = 0)

IsPair(v) == v.kind = "pack" /\ Len(v.elems) = 2

Swapped(v) == [v EXCEPT !.elems = <<v.elems[2], v.elems[1]>>]

\* Frames a call on a value of v's type nests: the overload for v and the
\* overloads it calls for its parts.
TypeNesting(v) ==
  CASE v.kind = "scalar" -> 1
    [] v.kind = "array" -> IF TriviallyComparable(v.ty) THEN 1 ELSE 2
    [] v.kind = "vector" -> 3
    [] v.kind = "ptrs" -> IF TriviallyComparable(v.ty) THEN 1 ELSE 2
    [] v.kind = "pack" -> Len(v.elems)
    [] OTHER -> 0

\* C1: the pointer-range overload makes the accumulator absorb the same bytes
\* as the iterator-range overload does for the same elements (reached here
\* through a vector of them).
C1_PtrRangeSameAsIterRange ==
  (/\ Done
   /\ cur.kind = "ptrs" /\ TriviallyComparable(cur.ty)
   /\ prev.val = [cur EXCEPT !.kind = "vector"])
  => ret = prev.ret

\* C2: a floating point x with x == 0 is absorbed as the sizeof(x) bytes of
\* +0.0, so it hashes as +0.0 does; the floating point overload leaves the
\* caller's value as it was.
C2_FloatZeroCanonical ==
  /\ []((/\ Done
         /\ cur.kind = "scalar" /\ Floating_point_type(cur.ty)
         /\ cur.elems[1].bits = 0)
        => /\ ret = storage(PosZero)
           /\ Len(ret) = SizeOf(cur.ty)
           /\ Absorbed = <<storage(PosZero)>>
           /\ (prev.val = Scalar(PosZero) => ret = prev.ret))
  /\ [][(Running /\ top.rule = "float") => cur' = cur]_vars

C2_Witness ==
  /\ Done
  /\ cur = Scalar(NegZero)
  /\ prev.val = Scalar(PosZero)
  /\ ret = <<0, 0, 0, 0>>

\* C3 as stated: hash(a, b) # hash(b, a) whenever a # b and the encodings of
\* a and b are non-empty and distinct.
C3_OrderSensitive ==
  (/\ Done
   /\ IsPair(cur) /\ prev.val = Swapped(cur)
   /\ NotEqual(cur.elems[1], cur.elems[2])
   /\ ElementBytes(cur.elems[1]) # <<>>
   /\ ElementBytes(cur.elems[2]) # <<>>
   /\ ElementBytes(cur.elems[1]) # ElementBytes(cur.elems[2]))
  => ret # prev.ret

\* C3 amended: hash(a, b) # hash(b, a) whenever the encodings of a and b are
\* non-empty, distinct and not both repetitions of one block of bytes; and
\* the variadic overload encodes its arguments left to right.
C3_OrderSensitiveAmended ==
  /\ (/\ Done
      /\ IsPair(cur) /\ prev.val = Swapped(cur)
      /\ ElementBytes(cur.elems[1]) # <<>>
      /\ ElementBytes(cur.elems[2]) # <<>>
      /\ ElementBytes(cur.elems[1]) # ElementBytes(cur.elems[2])
      /\ ~CommonBlock(ElementBytes(cur.elems[1]), ElementBytes(cur.elems[2])))
     => ret # prev.ret
  /\ (Done /\ cur.kind = "pack")
     => /\ ret = ConcatElements(cur.elems)
        /\ Absorbed = [k \in 1..Len(cur.elems) |-> ElementBytes(cur.elems[k])]

C3_Witness ==
  /\ Done
  /\ cur = Value("pack", "pack", <<Elem("char", 0, 97), Elem("int", 0, 16843009)>>)
  /\ prev.val = Swapped(cur)
  /\ ret = <<97, 1, 1, 1, 1>>
  /\ prev.ret = <<1, 1, 1, 1, 97>>

\* C4: the functor constructs a fresh accumulator, dispatches hash_append
\* once, finalizes with value() once and returns, in this order.
C4_FunctorFinalizesOnce ==
  Returned => trace = <<"construct", "hash_append", "value", "return">>

\* C5: hashing n elements of a trivially comparable type from begin to end
\* absorbs each element's bytes in order, n * sizeof(element) bytes, and
\* nothing else.
C5_SequenceIsConcatenation ==
  (Done /\ cur.kind = "vector" /\ TriviallyComparable(cur.ty))
  => /\ Absorbed = [k \in 1..Len(cur.elems) |-> storage(cur.elems[k])]
     /\ ret = ArrayStorage(cur.elems)
     /\ Len(ret) = Len(cur.elems) * SizeOf(cur.ty)

C5_Witness ==
  /\ Done
  /\ cur = Value("vector", "int", <<Elem("int", 0, 5), Elem("int", 0, 0)>>)
  /\ ret = <<5, 0, 0, 0, 0, 0, 0, 0>>

\* C6: a trivially comparable scalar v is absorbed as one span of sizeof(v)
\* bytes, its storage unchanged.
C6_ScalarIsRawStorage ==
  (Done /\ cur.kind = "scalar" /\ TriviallyComparable(cur.ty))
  => /\ Absorbed = <<storage(cur.elems[1])>>
     /\ ret = storage(cur.elems[1])
     /\ Len(ret) = SizeOf(cur.ty)

C6_Witness ==
  /\ Done
  /\ cur = Scalar(Elem("int", 0, 5))
  /\ ret = <<5, 0, 0, 0>>

\* C7: hashing the same value twice, each time with its own accumulator,
\* absorbs the same bytes and returns the same result.
C7_Deterministic ==
  (Done /\ prev.val = cur)
  => /\ ret = prev.ret
     /\ buf_[Acc] = prev.absorbed

C7_Witness ==
  /\ Done
  /\ prev.val = cur
  /\ cur = Value("vector", "float", <<NegZero, FloatOne>>)
  /\ ret = prev.ret
  /\ Len(ret) = 8

\* C8: the general array overload applies the element type's overload to
\* a[0], ..., a[N-1] in index order, once each.
C8_ArrayEncodesElements ==
  /\ \A k \in 1..(Len(stack) - 1) :
       stack[k].rule = "array_gen"
         => stack[k + 1].val = Scalar(stack[k].val.elems[stack[k].i])
  /\ (Done /\ cur.kind = "array" /\ ~TriviallyComparable(cur.ty))
     => ret = ConcatElements(cur.elems)

\* C9: every hash_append call returns, and the calls it nests are never
\* deeper than the nesting of the value's type.
C9_RecursionBounded ==
  /\ pc # "crashed"
  /\ Len(stack) <= TypeNesting(cur)

\* C10: the buffer of a debug_hasher is the concatenation, in call order, of
\* the spans it absorbed; a step only extends it at its end; value() returns
\* it.
C10_BufferIsConcatenation ==
  /\ [](/\ buf_["h"] = Flatten(spans["h"])
        /\ (pc = "value" => out = Flatten(spans["h"])))
  /\ [][/\ Len(buf_["h"]) <= Len(buf_'["h"])
        /\ SubSeq(buf_'["h"], 1, Len(buf_["h"])) = buf_["h"]]_vars

C10_Witness ==
  /\ pc = "value"
  /\ nappends = 3
  /\ Len(spans["h"]) = 5
  /\ out = <<5, 0, 0, 0, 1, 0, 0, 0, 2, 0, 0, 0, 97, 98>>

====
